---- MODULE Spec2Model ----
(***************************************************************************)
(* Model of the concord burst-matcher tools:                               *)
(*   anisotropy.py        anisotropy(inclination, model, test)             *)
(*   pytools/ctools.py    load_models, setup_positions, setup_sampler,     *)
(*                        run_sampler, plot_lightcurves, save_summary,     *)
(*                        save_summaries, save_all_summaries, combine_mcmc *)
(*   ctools.py            the earlier load_models, setup_positions,        *)
(*                        setup_sampler, run_sampler                       *)
(*   construct_t_params and expand_batches (manipulation, define_sources)  *)
(*   are not part of the sources at hand and follow the written            *)
(*   specification.  burstclass.lhoodClass, the likelihood handed to the   *)
(*   sampler, is not part of them either and is not modelled.              *)
(*                                                                         *)
(* Numbers.  The analytic model is computed in decimal floating point:     *)
(* numbers [m, e] of value m * 10^e with a mantissa of four digits         *)
(* (1000..9999, or 0), because it divides by cos(90 deg), which numpy      *)
(* gives as 6.123e-17 and not as 0.  The tabulated model is computed in    *)
(* IEEE 754 double precision, as scipy and numpy compute it: numbers       *)
(* [s, m, e] of value (-1)^s * m * 2^e, the 53-bit mantissa m held in      *)
(* limbs of 15 bits, least significant first.  The reference table is      *)
(* written in fixed point (angles in millidegrees, columns in units of     *)
(* 1e-4) and parsed into doubles.                                          *)
(***************************************************************************)
EXTENDS Integers, Sequences, FiniteSets, TLC

VARIABLES
    tableFile,    \* the rows of anisotropy_he16.txt (static)
    cache,        \* the module global anisotropy_he16
    loads,        \* how many times the table file has been read
    last,         \* the last completed anisotropy() call and its outcome
    pinned,       \* one earlier successful tabulated call, remembered
    pc,           \* per sampler thread: position inside anisotropy()
    tincl,        \* per thread: the inclination of its call
    tlocal,       \* per thread: the interpolator it built but has not stored
    tres,         \* per thread: the pair its last call returned
    paramsObj,    \* the initial-guess list object the caller keeps
    models,       \* the tuple load_models returned last
    pos,          \* the walker positions setup_positions returned last
    tools,        \* the tools module the setup script imports
    slast,        \* the last completed setup operation and its outcome
    chain,        \* the samples the sampler has stored
    rlast,        \* the last completed sampling or plotting operation
    disk,         \* the mcmc tables on disk
    sumlast       \* the last completed summary operation and its outcome

anisoVars  == <<tableFile, cache, loads, last, pinned>>
threadVars == <<pc, tincl, tlocal, tres>>
setupVars  == <<tools, paramsObj, models, pos, slast>>
runVars    == <<chain, rlast>>
sumVars    == <<disk, sumlast>>
toolVars   == <<chain, rlast, disk, sumlast>>
vars == <<tableFile, cache, loads, last, pinned, pc, tincl, tlocal, tres,
          tools, paramsObj, models, pos, slast, chain, rlast, disk, sumlast>>

----------------------------------------------------------------------------
(* Decimal floating point *)

Flt(m, e) == [m |-> m, e |-> e]

Zero == Flt(0, 0)
One  == Flt(1000, -3)
Half == Flt(5000, -4)
\* numpy's result of a float division by zero
Inf  == Flt(1, 999)

IsFinite(x) == x # Inf

RECURSIVE Norm(_, _)
Norm(m, e) ==
    IF m = 0 THEN Zero
    ELSE IF m >= 10000 THEN Norm(m \div 10, e + 1)
    ELSE IF m < 1000 THEN Norm(m * 10, e - 1)
    ELSE Flt(m, e)

RECURSIVE Pow10(_)
Pow10(n) == IF n <= 0 THEN 1 ELSE 10 * Pow10(n - 1)

\* abs() of a float
FAbs(x) == IF x.m < 0 THEN Flt(0 - x.m, x.e) ELSE x

\* a + b for a, b >= 0
FAdd(a, b) ==
    IF a.m = 0 THEN b
    ELSE IF b.m = 0 THEN a
    ELSE LET hi == IF a.e >= b.e THEN a ELSE b
             lo == IF a.e >= b.e THEN b ELSE a
             d  == hi.e - lo.e
         IN  IF d > 4 THEN hi ELSE Norm(hi.m + (lo.m \div Pow10(d)), hi.e)

\* a / b for a, b >= 0; a float division by zero gives inf
FDiv(a, b) ==
    IF b.m = 0 THEN Inf
    ELSE IF b = Inf THEN Zero
    ELSE Norm((a.m * 10000) \div b.m, a.e - b.e - 4)

----------------------------------------------------------------------------
(* Natural numbers of any size: sequences of limbs, least significant     *)
(* first, without leading zero limbs; the empty sequence is 0              *)

Base == 2^15

RECURSIVE BTrim(_)
BTrim(a) ==
    IF a = << >> THEN a
    ELSE IF a[Len(a)] = 0 THEN BTrim(SubSeq(a, 1, Len(a) - 1))
    ELSE a

RECURSIVE BFromInt(_)
BFromInt(n) == IF n = 0 THEN << >> ELSE << n % Base >> \o BFromInt(n \div Base)

Limb(a, i) == IF i <= Len(a) THEN a[i] ELSE 0

RECURSIVE BAddFrom(_, _, _, _)
BAddFrom(a, b, i, carry) ==
    IF i > Len(a) /\ i > Len(b)
    THEN IF carry = 0 THEN << >> ELSE << carry >>
    ELSE LET s == Limb(a, i) + Limb(b, i) + carry
         IN  << s % Base >> \o BAddFrom(a, b, i + 1, s \div Base)

BAdd(a, b) == BAddFrom(a, b, 1, 0)

RECURSIVE BSubFrom(_, _, _, _)
BSubFrom(a, b, i, borrow) ==
    IF i > Len(a) THEN << >>
    ELSE LET s == Limb(a, i) - Limb(b, i) - borrow
         IN  IF s < 0 THEN << s + Base >> \o BSubFrom(a, b, i + 1, 1)
             ELSE << s >> \o BSubFrom(a, b, i + 1, 0)

\* a - b for a >= b
BSub(a, b) == BTrim(BSubFrom(a, b, 1, 0))

RECURSIVE BCmpFrom(_, _, _)
BCmpFrom(a, b, i) ==
    IF i = 0 THEN 0
    ELSE IF a[i] > b[i] THEN 1
    ELSE IF a[i] < b[i] THEN 0 - 1
    ELSE BCmpFrom(a, b, i - 1)

\* the sign of a - b
BCmp(a, b) ==
    IF Len(a) > Len(b) THEN 1
    ELSE IF Len(a) < Len(b) THEN 0 - 1
    ELSE BCmpFrom(a, b, Len(a))

RECURSIVE BMulFrom(_, _, _, _)
BMulFrom(a, k, i, carry) ==
    IF i > Len(a)
    THEN IF carry = 0 THEN << >> ELSE << carry >>
    ELSE LET p == a[i] * k + carry
         IN  << p % Base >> \o BMulFrom(a, k, i + 1, p \div Base)

\* a * k + carry for one limb k
BMulSmall(a, k, carry) == BTrim(BMulFrom(a, k, 1, carry))

BShiftLimbs(a, n) == IF a = << >> THEN a ELSE [i \in 1..n |-> 0] \o a

RECURSIVE BMulAt(_, _, _)
BMulAt(a, b, i) ==
    IF i > Len(b) THEN << >>
    ELSE BAdd(BShiftLimbs(BMulSmall(a, b[i], 0), i - 1), BMulAt(a, b, i + 1))

\* a * 2^n
BShl(a, n) == BShiftLimbs(BMulSmall(a, 2^(n % 15), 0), n \div 15)

RECURSIVE BDivFrom(_, _, _, _)
BDivFrom(a, k, i, rem) ==
    IF i = 0 THEN << >>
    ELSE LET cur == rem * Base + a[i]
         IN  Append(BDivFrom(a, k, i - 1, cur % k), cur \div k)

\* a \div 2^n
BShr(a, n) ==
    LET whole == n \div 15
        rest == IF whole >= Len(a) THEN << >> ELSE SubSeq(a, whole + 1, Len(a))
    IN  BTrim(BDivFrom(rest, 2^(n % 15), Len(rest), 0))

RECURSIVE BitsOf(_)
BitsOf(n) == IF n = 0 THEN 0 ELSE 1 + BitsOf(n \div 2)

BBitLen(a) == IF a = << >> THEN 0 ELSE 15 * (Len(a) - 1) + BitsOf(a[Len(a)])

----------------------------------------------------------------------------
(* IEEE 754 double precision: (-1)^s * m * 2^e with m of 53 bits, every    *)
(* operation rounded to nearest, ties to even                              *)

Dbl(s, m, e) == [s |-> s, m |-> m, e |-> e]

DZero == Dbl(0, << >>, 0)

\* the result of a division by zero
DInf == Dbl(0, << >>, 9999)

\* a mantissa that the carry of a rounding made 54 bits long loses its last
Renormal(s, q, e) ==
    IF BBitLen(q) > 53 THEN Dbl(s, BShr(q, 1), e + 1) ELSE Dbl(s, q, e)

\* round to nearest, ties to even: c is the sign of (dropped bits - half)
RoundUp(s, q, e, c, sticky) ==
    IF c > 0 \/ (c = 0 /\ (sticky \/ q[1] % 2 = 1))
    THEN Renormal(s, BMulSmall(q, 1, 1), e)
    ELSE Dbl(s, q, e)

\* m of len bits brought to 53 bits: the dropped bits are m less its leading
\* 53 bits, and half of the last place kept is 2^(len - 54)
RoundAt(s, m, e, sticky, len) ==
    IF len <= 53 THEN Dbl(s, BShl(m, 53 - len), e - (53 - len))
    ELSE RoundUp(s, BShr(m, len - 53), e + (len - 53),
                 BCmp(BSub(m, BShl(BShr(m, len - 53), len - 53)),
                      BShl(<< 1 >>, len - 54)),
                 sticky)

\* the double nearest m * 2^e; sticky says that bits below m were dropped
DRound(s, m, e, sticky) ==
    IF m = << >> THEN DZero ELSE RoundAt(s, m, e, sticky, BBitLen(m))

\* a Python int as a float
DInt(n) ==
    DRound(IF n < 0 THEN 1 ELSE 0, BFromInt(IF n < 0 THEN 0 - n ELSE n), 0, FALSE)

DOne == Dbl(0, << 0, 0, 0, 128 >>, 0 - 52)

\* the sum of two signed mantissas of the same exponent; c is the sign of
\* ma - mb
AddAligned(sa, ma, sb, mb, e, c) ==
    IF sa # sb /\ c = 0 THEN DZero
    ELSE DRound(IF sa = sb \/ c > 0 THEN sa ELSE sb,
                IF sa = sb THEN BAdd(ma, mb)
                ELSE IF c > 0 THEN BSub(ma, mb) ELSE BSub(mb, ma),
                e, FALSE)

DAdd(a, b) ==
    IF a.m = << >> THEN b
    ELSE IF b.m = << >> THEN a
    ELSE LET e == IF a.e <= b.e THEN a.e ELSE b.e
         IN  AddAligned(a.s, BShl(a.m, a.e - e), b.s, BShl(b.m, b.e - e), e,
                        BCmp(BShl(a.m, a.e - e), BShl(b.m, b.e - e)))

DSub(a, b) == DAdd(a, Dbl(1 - b.s, b.m, b.e))

DMul(a, b) ==
    IF a.m = << >> \/ b.m = << >> THEN DZero
    ELSE DRound((a.s + b.s) % 2, BMulAt(a.m, b.m, 1), a.e + b.e, FALSE)

\* the next seven quotient bits of r / b, for r < b and b of 53 bits and
\* rr = 128 * r: the digit d with d * b <= rr < (d + 1) * b, which the
\* leading limbs of rr and b give to within one
Digit(rr, b) ==
    LET est == (Limb(rr, 4) * Base + Limb(rr, 3)) \div (b[4] * Base + b[3])
    IN  CHOOSE d \in (est - 1)..(est + 1) :
            /\ d >= 0
            /\ BCmp(BMulSmall(b, d, 0), rr) <= 0
            /\ BCmp(BMulSmall(b, d + 1, 0), rr) > 0

DivStep(prev, b, d) ==
    [q |-> BMulSmall(prev.q, 128, d),
     r |-> BSub(BMulSmall(prev.r, 128, 0), BMulSmall(b, d, 0))]

DivDigit(prev, b) == DivStep(prev, b, Digit(BMulSmall(prev.r, 128, 0), b))

RECURSIVE LongDiv(_, _, _, _)
\* n more digits of r / b after the quotient bits q: quotient and remainder
LongDiv(q, r, b, n) ==
    IF n = 0 THEN [q |-> q, r |-> r]
    ELSE DivDigit(LongDiv(q, r, b, n - 1), b)

Quotient(s, d, e) == DRound(s, d.q, e, d.r # << >>)

DDiv(a, b) ==
    IF b.m = << >> THEN DInf
    ELSE IF a.m = << >> THEN DZero
    ELSE Quotient((a.s + b.s) % 2,
                  IF BCmp(a.m, b.m) >= 0
                  THEN LongDiv(<< 1 >>, BSub(a.m, b.m), b.m, 8)
                  ELSE LongDiv(<< >>, a.m, b.m, 8),
                  a.e - b.e - 56)

\* a decimal number n / scale of a text file, as it is parsed
Decimal(n, scale) == DDiv(DInt(n), DInt(scale))

----------------------------------------------------------------------------
(* Angles: an inclination is a bare number or an astropy Quantity *)

Units == {"none", "deg", "rad"}

Quantity(v, u) == [value |-> v, unit |-> u]

\* a faulty variant: a bare number taken as radians
AttachUnitRadians(inclination) ==
    IF inclination.unit = "none"
    THEN Quantity(inclination.value, "rad")
    ELSE inclination

\* lines 55-59: a bare number is tagged as degrees
AttachUnit(inclination) ==
    IF inclination.unit = "none"
    THEN Quantity(inclination.value, "deg")
    ELSE inclination

\* Quantity.to(u.degree), in millidegrees (180/pi = 57.296)
ToDegree(q) ==
    IF q.unit = "deg" THEN q.value * 1000 ELSE q.value * 57296

\* Quantity.to(u.degree) as the float the interpolator is called with;
\* astropy's factor from radian to degree is the double 57.29577951308232
Degrees(q) ==
    IF q.unit = "deg" THEN DInt(q.value)
    ELSE DMul(DInt(q.value), Dbl(0, << 16888, 13511, 6000, 229 >>, 0 - 47))

\* the conversion numpy's cos applies to a Quantity, in milliradians
ToRadian(q) ==
    IF q.unit = "rad" THEN q.value * 1000
    ELSE (q.value * 17453 + 500) \div 1000

\* cos of an angle in milliradians, as numpy computes it in double precision
\* (four digits kept); 1571 is the double nearest pi/2, whose cos is not 0
CosRad(r) ==
    CASE r = 0      -> Flt(1000, -3)
      [] r = 17     -> Flt(9998, -4)
      [] r = 524    -> Flt(8660, -4)
      [] r = 785    -> Flt(7071, -4)
      [] r = 1553   -> Flt(1745, -5)
      [] r = 1571   -> Flt(6123, -20)
      [] r = 2094   -> Flt(-5000, -4)
      [] r = 1000   -> Flt(5403, -4)
      [] r = 30000  -> Flt(1542, -4)
      [] r = 45000  -> Flt(5253, -4)
      [] r = 89000  -> Flt(5101, -4)
      [] r = 90000  -> Flt(-4480, -4)
      [] r = 120000 -> Flt(8141, -4)

NpCos(theta) == CosRad(ToRadian(theta))

\* the numbers an inclination is given as
AngleValues == {0, 1, 30, 45, 89, 90, 120}

Inclinations == {Quantity(v, u) : v \in AngleValues, u \in Units}

----------------------------------------------------------------------------
(* The analytic model, line 67 *)

Pair(b, p) == [xi_b |-> b, xi_p |-> p]

\* a bug a refactoring could introduce: the persistent factor without the 0.5
Fuji88NoHalf(theta) ==
    Pair(FDiv(One, FAdd(Half, FAbs(NpCos(theta)))),
         FDiv(One, FAbs(NpCos(theta))))

Fuji88(theta) ==
    Pair(FDiv(One, FAdd(Half, FAbs(NpCos(theta)))),
         FDiv(Half, FAbs(NpCos(theta))))

----------------------------------------------------------------------------
(* The tabulated model, lines 71-78 *)

Row(x, d, r, p) == [x |-> x, d |-> d, r |-> r, p |-> p]

\* two reference tables the file may hold: (inclination in millidegrees,
\* inv_xi_disk, inv_xi_reflection, inv_xi_persistent in units of 1e-4)
TableA ==
    << Row(0, 12000, 3000, 18000), Row(30000, 11000, 2800, 16000),
       Row(60000, 9000, 2200, 10000), Row(90000, 5000, 1000, 1250) >>

TableB ==
    << Row(0, 15000, 2500, 20000), Row(45000, 10000, 2000, 12500),
       Row(89000, 4000, 800, 2000) >>

Tables == {TableA, TableB}

NotCached == [set |-> FALSE, tab |-> << >>]

Cached(tab) == [set |-> TRUE, tab |-> tab]

Loaded(c, reads) == [cache |-> c, reads |-> reads]

SwapColumns(tab) ==
    [k \in 1..Len(tab) |-> Row(tab[k].x, tab[k].d, tab[k].p, tab[k].r)]

\* faulty variants of the check-then-load of lines 71-74: one that reads the
\* file on every call, one that rebuilds the stored interpolator with two
\* columns exchanged on every later call
CheckThenLoadAlways(c, file) == Loaded(Cached(file), 1)

CheckThenLoadDrift(c, file) ==
    IF ~c.set THEN Loaded(Cached(file), 1)
    ELSE Loaded(Cached(SwapColumns(c.tab)), 0)

\* lines 71-74: the global after the check-then-load, and the file reads made
CheckThenLoad(c, file) ==
    IF ~c.set THEN Loaded(Cached(file), 1) ELSE Loaded(c, 0)

\* interp1d's bounds check (bounds_error): x inside the table's range
InRange(tab, x) == tab[1].x <= x /\ x <= tab[Len(tab)].x

\* numpy.searchsorted(x, x_new), clipped to 1..n-1 (here 2..n, 1-based)
HiIndex(tab, x) ==
    LET first == CHOOSE k \in 1..Len(tab) :
                    /\ tab[k].x >= x
                    /\ \A j \in 1..(k - 1) : tab[j].x < x
    IN  IF first < 2 THEN 2 ELSE first

\* scipy's interp1d, kind linear, over a two-dimensional y:
\*     slope = (y_hi - y_lo) / (x_hi - x_lo)
\*     y_new = slope*(x_new - x_lo) + y_lo
\* every operation rounded to a double
Lerp(xlo, ylo, xhi, yhi, x) ==
    DAdd(DMul(DDiv(DSub(yhi, ylo), DSub(xhi, xlo)), DSub(x, xlo)), ylo)

\* ascii.read and np.stack, lines 72-73: a row of the file as doubles
AsDoubles(row) ==
    [x |-> Decimal(row.x, 1000), d |-> Decimal(row.d, 10000),
     r |-> Decimal(row.r, 10000), p |-> Decimal(row.p, 10000)]

\* the three columns between two rows
Between(lo, hi, x) ==
    [d |-> Lerp(lo.x, lo.d, hi.x, hi.d, x),
     r |-> Lerp(lo.x, lo.r, hi.x, hi.r, x),
     p |-> Lerp(lo.x, lo.p, hi.x, hi.p, x)]

\* interp1d(a['col1'], v)(theta.to(u.degree)): piecewise linear over the
\* three columns, between the two rows searchsorted finds
Interp1d(tab, theta) ==
    Between(AsDoubles(tab[HiIndex(tab, ToDegree(theta)) - 1]),
            AsDoubles(tab[HiIndex(tab, ToDegree(theta))]),
            Degrees(theta))

\* line 78
Reciprocals(v) == Pair(DDiv(DOne, DAdd(v.d, v.r)), DDiv(DOne, v.p))

\* lines 76-78
He16(tab, theta) == Reciprocals(Interp1d(tab, theta))

\* the pairs of lines 76-78 for the tables an interpolator is built from
\* here and the inclinations inside each of them, computed once
He16Values ==
    [tab \in Tables \cup {SwapColumns(t) : t \in Tables} |->
        [theta \in {AttachUnit(i) : i \in
                        {q \in Inclinations : InRange(tab, ToDegree(AttachUnit(q)))}} |->
            He16(tab, theta)]]

\* lines 76-78, looked up in values where the pair has been computed
He16At(values, tab, theta) ==
    IF tab \in DOMAIN values /\ theta \in DOMAIN values[tab]
    THEN values[tab][theta]
    ELSE He16(tab, theta)

----------------------------------------------------------------------------
(* anisotropy(inclination, model, test), run to completion *)

SupportedModels == {"fuji88", "he16"}

\* 'he16_a', setup_sampler's default disc_model, is a name the function
\* does not know
ModelNames == SupportedModels \cup {"he16_a"}

NoPair == Pair(Zero, Zero)

Outcome(c, reads, kind, res, msg) ==
    [cache |-> c, reads |-> reads, kind |-> kind, res |-> res, msg |-> msg]

\* lines 22-49: with test set, the function first calls itself for both
\* models at 50 angles from 0 to pi/2 rad; the tabulated calls fill the
\* cache and raise unless the table covers 0..90 degrees
TestCovered(tab) == InRange(tab, 0) /\ InRange(tab, 90000)

\* lines 80-83: the name is printed and a pair of None is returned
UnknownModel(c, reads, model) ==
    Outcome(c, reads, "null", NoPair, model)

\* a bug: the interpolator built with bounds_error=False, which returns fill
\* values outside the table instead of raising
BoundsErrorOff(c, reads) ==
    Outcome(c, reads, "value", NoPair, "")

\* line 76: interp1d is built with its defaults, so a query outside
\* [a['col1'][0], a['col1'][-1]] raises ValueError; the global assigned at
\* line 74 stays
BoundsError(c, reads) ==
    Outcome(c, reads, "raised", NoPair, "ValueError")

\* lines 55-83
Body(c, reads, file, inclination, model) ==
    LET theta == AttachUnit(inclination) IN
    IF model = "fuji88" THEN
        Outcome(c, reads, "value", Fuji88(theta), "")
    ELSE IF model = "he16" THEN
        LET ld == CheckThenLoad(c, file)
            c2 == ld.cache
            n2 == reads + ld.reads
        IN  IF InRange(c2.tab, ToDegree(theta))
            THEN Outcome(c2, n2, "value", He16At(He16Values, c2.tab, theta), "")
            ELSE BoundsError(c2, n2)
    ELSE UnknownModel(c, reads, model)

\* lines 8-83
AnisotropyCall(c, file, inclination, model, test) ==
    IF test THEN
        LET ld == CheckThenLoad(c, file)
            c1 == ld.cache
            n1 == ld.reads
        IN  IF TestCovered(c1.tab)
            THEN Body(c1, n1, file, inclination, model)
            ELSE BoundsError(c1, n1)
    ELSE Body(c, 0, file, inclination, model)

NoCall ==
    [op |-> "none", model |-> "", incl |-> Quantity(0, "none"), test |-> FALSE,
     kind |-> "", res |-> NoPair, msg |-> "", reads |-> 0, before |-> NotCached]

NotPinned == [set |-> FALSE, incl |-> Quantity(0, "none"), res |-> NoPair]

Anisotropy(inclination, model, test, pin) ==
    \E out \in {AnisotropyCall(cache, tableFile, inclination, model, test)} :
        /\ cache' = out.cache
        /\ loads' = loads + out.reads
        /\ last' = [op |-> "anisotropy", model |-> model, incl |-> inclination,
                    test |-> test, kind |-> out.kind, res |-> out.res,
                    msg |-> out.msg, reads |-> out.reads, before |-> cache]
        /\ pinned' = IF /\ pin
                        /\ ~pinned.set
                        /\ model = "he16"
                        /\ out.kind = "value"
                     THEN [set |-> TRUE, incl |-> inclination, res |-> out.res]
                     ELSE pinned
        /\ UNCHANGED tableFile

----------------------------------------------------------------------------
(* Sampler threads inside the tabulated branch, one bytecode group a step *)

NThreads == 2

Threads == 1..NThreads

ThreadInclinations == {Quantity(30, "deg"), Quantity(1, "rad"), Quantity(120, "deg")}

\* the likelihood of one walker calls anisotropy(i, model='he16')
TCall(t, inclination) ==
    /\ pc[t] = "idle"
    /\ pc' = [pc EXCEPT ![t] = "check"]
    /\ tincl' = [tincl EXCEPT ![t] = AttachUnit(inclination)]
    /\ UNCHANGED <<tlocal, tres>>
    /\ UNCHANGED anisoVars
    /\ UNCHANGED setupVars
    /\ UNCHANGED toolVars

\* line 71: 'anisotropy_he16' not in globals()
TCheck(t) ==
    /\ pc[t] = "check"
    /\ pc' = [pc EXCEPT ![t] = IF ~cache.set THEN "read" ELSE "eval"]
    /\ UNCHANGED <<tincl, tlocal, tres>>
    /\ UNCHANGED anisoVars
    /\ UNCHANGED setupVars
    /\ UNCHANGED toolVars

\* lines 72-74, right-hand side: the file is read, the interpolator built
TRead(t) ==
    /\ pc[t] = "read"
    /\ loads' = loads + 1
    /\ tlocal' = [tlocal EXCEPT ![t] = Cached(tableFile)]
    /\ pc' = [pc EXCEPT ![t] = "store"]
    /\ UNCHANGED <<tincl, tres>>
    /\ UNCHANGED <<tableFile, cache, last, pinned>>
    /\ UNCHANGED setupVars
    /\ UNCHANGED toolVars

\* line 74, the assignment to the global
TStore(t) ==
    /\ pc[t] = "store"
    /\ cache' = tlocal[t]
    /\ pc' = [pc EXCEPT ![t] = "eval"]
    /\ UNCHANGED <<tincl, tlocal, tres>>
    /\ UNCHANGED <<tableFile, loads, last, pinned>>
    /\ UNCHANGED setupVars
    /\ UNCHANGED toolVars

\* lines 76-78
TEval(t) ==
    /\ pc[t] = "eval"
    /\ tres' = [tres EXCEPT ![t] =
                    IF InRange(cache.tab, ToDegree(tincl[t]))
                    THEN [kind |-> "value", res |-> He16At(He16Values, cache.tab, tincl[t])]
                    ELSE [kind |-> "raised", res |-> NoPair]]
    /\ pc' = [pc EXCEPT ![t] = "idle"]
    /\ UNCHANGED <<tincl, tlocal>>
    /\ UNCHANGED anisoVars
    /\ UNCHANGED setupVars
    /\ UNCHANGED toolVars

----------------------------------------------------------------------------
(* Setup: load_obs, load_models, setup_positions, setup_sampler *)

Sources == {"gs1826", "4u1820"}

\* ctools.py lines 40-44: the observed epochs of each source
ObsFiles(source) ==
    IF source = "gs1826"
    THEN << "gs1826-24_3.530h.dat", "gs1826-24_4.177h.dat", "gs1826-24_5.14h.dat" >>
    ELSE << "4u1820-303_1.892h.dat", "4u1820-303_2.681h.dat" >>

\* load_obs: one ObservedBurst per file, in file order
LoadObs(source) == ObsFiles(source)

\* the number of base parameters: distance, inclination, 1+z
NBase == 3

\* ctools.py line 150: [6.09, 60., 1.28], in hundredths
DefaultGuess == << 609, 6000, 128 >>

\* tshift = -6.5, in hundredths
DefaultShift == 0 - 650

MaxEpochs == 3
MaxRuns == 3
MaxDim == 7
NWalkers == 2

RECURSIVE AppendShifts(_, _, _)
\* for i in range(n): params.append(tshift)
AppendShifts(params, n, tshift) ==
    IF n <= 0 THEN params
    ELSE AppendShifts(Append(params, tshift), n - 1, tshift)

\* pos = [params * (1 + mag * randn(ndim)) for i in range(nwalkers)]: every
\* walker is a perturbed copy of params, entry by entry (the perturbation
\* changes the values, here left as the guess, never the length)
Ball(params, nwalkers) == [w \in 1..nwalkers |-> params]

\* ctools.py line 156: params = list(params0), the caller's list is copied
ParamsAfterCopy(given, extended) == given

\* pytools/ctools.py lines 154-160: params is the caller's list itself, so
\* the appends lengthen it
ParamsAfterAppend(given, extended) == extended

ToolsFiles == {"ctools.py", "pytools/ctools.py"}

NoSampler == [built |-> FALSE, nwalkers |-> 0, ndim |-> 0, nobs |-> 0, nmodels |-> 0]

\* emcee.EnsembleSampler(nwalkers, ndim, lhoodClass, args=(obs, models, ...))
EnsembleSampler(nwalkers, ndim, obs, mods) ==
    [built |-> TRUE, nwalkers |-> nwalkers, ndim |-> ndim,
     nobs |-> Len(obs), nmodels |-> Len(mods)]

NoSetup == [op |-> "none", kind |-> "", n_epochs |-> 0, nruns |-> 0,
            nbatches |-> 0, runs |-> << >>, batches |-> << >>, msg |-> "",
            sampler |-> NoSampler]

\* pytools/ctools.py lines 140-165, called with the caller's list (reuse) or
\* with a new list of the three base values
SetupPositionsPy(n_epochs, reuse) ==
    LET given == IF reuse THEN paramsObj ELSE DefaultGuess
        ext   == AppendShifts(given, n_epochs, DefaultShift)
    IN  /\ tools = "pytools/ctools.py"
        /\ Len(ext) <= MaxDim
        /\ paramsObj' = IF reuse THEN ParamsAfterAppend(given, ext) ELSE paramsObj
        /\ pos' = Ball(ext, NWalkers)
        /\ slast' = [NoSetup EXCEPT !.op = "setup_positions", !.kind = "returned",
                        !.n_epochs = n_epochs]
        /\ UNCHANGED <<tools, models>>

\* ctools.py lines 148-163: one time shift per observed burst
SetupPositionsOld(source, reuse) ==
    LET given == IF reuse THEN paramsObj ELSE DefaultGuess
        n     == Len(LoadObs(source))
        ext   == AppendShifts(given, n, DefaultShift)
    IN  /\ tools = "ctools.py"
        /\ Len(ext) <= MaxDim
        /\ paramsObj' = IF reuse THEN ParamsAfterCopy(given, ext) ELSE paramsObj
        /\ pos' = Ball(ext, NWalkers)
        /\ slast' = [NoSetup EXCEPT !.op = "setup_positions", !.kind = "returned",
                        !.n_epochs = n]
        /\ UNCHANGED <<tools, models>>

\* the run and batch numbers load_models is called with
RunLists == {[k \in 1..n |-> first + k - 1] : n \in 1..MaxRuns, first \in {1, 5}}
BatchLists == {[k \in 1..n |-> first + k - 1] : n \in 1..MaxEpochs, first \in {4, 12}}

\* pytools/ctools.py lines 94-96: a single run stands for every batch
ExpandRuns(runs, batches) ==
    IF Len(runs) = 1 THEN [k \in 1..Len(batches) |-> runs[1]] ELSE runs

\* the loop of lines 98-132 (ctools.py 75-119): model k from runs[k], batches[k]
BuildModels(runs, batches) ==
    [k \in 1..Len(runs) |-> [run |-> runs[k], batch |-> batches[k]]]

MaxNRuns == 2

\* the runs of a batch of the model grid, numbered from 1 to n_runs: the
\* rows of its parameter table
GridRuns == 1..MaxNRuns

\* what load_models leaves: the tuple, or the IndexError of batches[i]
\* (line 99) or of the look-up of a run the parameter table does not hold
\* (line 113, ctools.py line 93)
LoadOutcome(runs, batches) ==
    IF Len(runs) <= Len(batches) /\ \A k \in 1..Len(runs) : runs[k] \in GridRuns
    THEN [kind |-> "returned", msg |-> "", models |-> BuildModels(runs, batches)]
    ELSE [kind |-> "raised", msg |-> "IndexError", models |-> << >>]

\* pytools/ctools.py lines 78-136
LoadModelsPy(runs, batches) ==
    LET out == LoadOutcome(ExpandRuns(runs, batches), batches) IN
    /\ tools = "pytools/ctools.py"
    /\ models' = IF out.kind = "returned" THEN out.models ELSE models
    /\ slast' = [NoSetup EXCEPT !.op = "load_models", !.kind = out.kind,
                    !.msg = out.msg, !.nruns = Len(runs), !.nbatches = Len(batches),
                    !.runs = runs, !.batches = batches]
    /\ UNCHANGED <<tools, paramsObj, pos>>

\* ctools.py lines 56-123: no expansion of a single run
LoadModelsOld(runs, batches) ==
    LET out == LoadOutcome(runs, batches) IN
    /\ tools = "ctools.py"
    /\ models' = IF out.kind = "returned" THEN out.models ELSE models
    /\ slast' = [NoSetup EXCEPT !.op = "load_models", !.kind = out.kind,
                    !.msg = out.msg, !.nruns = Len(runs), !.nbatches = Len(batches),
                    !.runs = runs, !.batches = batches]
    /\ UNCHANGED <<tools, paramsObj, pos>>

\* pytools/ctools.py lines 169-185 with pos given (the positions returned
\* last): nwalkers and ndim are read off pos, nothing is compared
SetupSamplerPy(source) ==
    LET obs == LoadObs(source) IN
    /\ tools = "pytools/ctools.py"
    /\ Len(pos) > 0
    /\ slast' = [NoSetup EXCEPT !.op = "setup_sampler", !.kind = "returned",
                    !.sampler = EnsembleSampler(Len(pos), Len(pos[1]), obs, models)]
    /\ UNCHANGED <<tools, paramsObj, models, pos>>

\* pytools/ctools.py lines 176-185 with pos = None: setup_positions is called
\* with the keyword arguments passed on
SetupSamplerPyNoPos(source, n_epochs, reuse) ==
    LET obs   == LoadObs(source)
        given == IF reuse THEN paramsObj ELSE DefaultGuess
        ext   == AppendShifts(given, n_epochs, DefaultShift)
        p     == Ball(ext, NWalkers)
    IN  /\ tools = "pytools/ctools.py"
        /\ Len(ext) <= MaxDim
        /\ paramsObj' = IF reuse THEN ParamsAfterAppend(given, ext) ELSE paramsObj
        /\ slast' = [NoSetup EXCEPT !.op = "setup_sampler", !.kind = "returned",
                        !.n_epochs = n_epochs,
                        !.sampler = EnsembleSampler(Len(p), Len(p[1]), obs, models)]
        /\ UNCHANGED <<tools, models, pos>>

\* ctools.py lines 127-144, pos given or None (setup_positions(obs=obs))
SetupSamplerOld(source, given_pos) ==
    LET obs == LoadObs(source)
        p   == IF given_pos THEN pos
               ELSE Ball(AppendShifts(DefaultGuess, Len(obs), DefaultShift), NWalkers)
    IN  /\ tools = "ctools.py"
        /\ Len(p) > 0
        /\ slast' = [NoSetup EXCEPT !.op = "setup_sampler", !.kind = "returned",
                        !.sampler = EnsembleSampler(Len(p), Len(p[1]), obs, models)]
        /\ UNCHANGED <<tools, paramsObj, models, pos>>

----------------------------------------------------------------------------
(* Sampling: run_sampler *)

MaxChain == 3

\* the step counts and start positions run_sampler is called with
StepCounts == 1..2
StartPositions == {0, 10}

\* a bug: the stored chain is dropped on every call
ResetAlways(restart, stored) == << >>

\* lines 193-194 (ctools.py 174-175): sampler.reset() empties the stored
\* chain, and is called only with restart set
ResetIf(restart, stored) == IF restart THEN << >> ELSE stored

\* line 196 (ctools.py 177), emcee's run_mcmc(pos, nsteps): nsteps samples
\* are appended to the stored chain, starting from pos; the last position,
\* its log-probability and the random state are returned
RunMcmc(stored, p0, nsteps) ==
    [chain |-> stored \o [k \in 1..nsteps |-> p0 + k],
     ret   |-> [pos_new |-> p0 + nsteps, lnprob |-> 0 - (p0 + nsteps),
                rstate |-> Len(stored) + nsteps]]

\* lines 198-202: get_autocorr_time() inside try / bare except; whatever it
\* raises is replaced by a printed line
TryAutocorr(fails) == IF fails THEN "absorbed" ELSE "printed"

NoReturn == [pos_new |-> 0, lnprob |-> 0, rstate |-> 0]

NoRun ==
    [op |-> "none", kind |-> "", msg |-> "", restart |-> FALSE, nsteps |-> 0,
     p0 |-> 0, autocorr |-> "", before |-> << >>, ret |-> NoReturn,
     source |-> "", run |-> 0, batches |-> << >>, compares |-> << >>]

\* pytools/ctools.py lines 189-204
RunSamplerPy(p0, nsteps, restart, fails) ==
    LET r  == RunMcmc(ResetIf(restart, chain), p0, nsteps)
        ac == TryAutocorr(fails)
    IN  /\ tools = "pytools/ctools.py"
        /\ Len(r.chain) <= MaxChain
        /\ chain' = r.chain
        /\ rlast' = [NoRun EXCEPT !.op = "run_sampler",
                        !.kind = IF ac = "raised" THEN "raised" ELSE "returned",
                        !.restart = restart, !.nsteps = nsteps, !.p0 = p0,
                        !.autocorr = ac, !.before = chain,
                        !.ret = IF ac = "raised" THEN NoReturn ELSE r.ret]

\* ctools.py lines 167-179: the same without the autocorrelation estimate
RunSamplerOld(p0, nsteps, restart) ==
    LET r == RunMcmc(ResetIf(restart, chain), p0, nsteps) IN
    /\ tools = "ctools.py"
    /\ Len(r.chain) <= MaxChain
    /\ chain' = r.chain
    /\ rlast' = [NoRun EXCEPT !.op = "run_sampler", !.kind = "returned",
                    !.restart = restart, !.nsteps = nsteps, !.p0 = p0,
                    !.autocorr = "none", !.before = chain, !.ret = r.ret]

----------------------------------------------------------------------------
(* Summaries: save_summary, save_summaries, save_all_summaries, combine_mcmc *)

\* the groups save_summary is called for, and the last batches of
\* save_all_summaries and combine_mcmc
SummaryGroups ==
    { [source |-> "gs1826", batch |-> 4], [source |-> "gs1826", batch |-> 12],
      [source |-> "4u1820", batch |-> 2] }
LastBatches == {4, 6, 12, 15}

\* the runs named in exclude, and the runs without a readable chain: none
\* or one of the n runs
RunSets(n) == {{}} \cup {{r} : r \in 1..n}

\* the con_ver arguments: one version number, or a list of them
ConVers == {1}
ConVerLists == { << >>, << 1 >>, << 1, 2 >> }

\* np.arange(a, b, step) and range(a, b, step), step > 0
Arange(a, b, step) ==
    IF b <= a THEN << >>
    ELSE [k \in 1..((b - a + step - 1) \div step) |-> a + (k - 1) * step]

\* manipulation.expand_batches(batch, source): the batches of the group that
\* starts at batch, three for gs1826 and two for 4u1820
ExpandBatches(batch, source) ==
    IF source = "gs1826" THEN << batch, batch + 1, batch + 2 >>
    ELSE << batch, batch + 1 >>

\* the mcmc table of one group of batches, named after source, the batches
\* of the group and con_ver (lines 388-392, 432-434, 618-622); the combined
\* table mcmc_<source>_C<con_ver>.txt of lines 635-636, whose name holds no
\* batches, is the one with batches = << >>
TableFile(source, batches, con_ver) ==
    [source |-> source, batches |-> batches, con_ver |-> con_ver]

\* lines 306 and 315: a table has one row per run of the grid, run = 1 ..
\* n_runs
TableRuns == GridRuns

\* combine_mcmc lines 603-610: the groups to be combined
AllBatches(source, last_batch) ==
    IF source = "gs1826"
    THEN << 4, 7, 9 >> \o Arange(12, last_batch + 1, 3)
    ELSE Arange(2, last_batch, 2)

RECURSIVE ReadTables(_, _, _, _, _)
\* combine_mcmc lines 614-631: every group not in exclude is read in order;
\* pd.read_table raises for a table that is not on disk
ReadTables(todo, exclude, source, con_ver, files) ==
    IF Len(todo) = 0 THEN [kind |-> "returned", msg |-> "", read |-> << >>]
    ELSE IF Head(todo) \in exclude
         THEN ReadTables(Tail(todo), exclude, source, con_ver, files)
    ELSE IF TableFile(source, ExpandBatches(Head(todo), source), con_ver) \notin files
         THEN [kind |-> "raised", msg |-> "FileNotFoundError", read |-> << >>]
    ELSE LET rest == ReadTables(Tail(todo), exclude, source, con_ver, files)
         IN  [rest EXCEPT !.read = << Head(todo) >> \o rest.read]

\* combine_mcmc lines 588-639: once every table has been read the combined
\* table is written into the same directory (lines 633-639)
CombineOutcome(last_batch, con_ver, source, exclude, files) ==
    LET tables   == ReadTables(AllBatches(source, last_batch), exclude, source,
                               con_ver, files)
        combined == TableFile(source, << >>, con_ver)
    IN  IF tables.kind = "raised"
        THEN [kind |-> "raised", msg |-> tables.msg, read |-> tables.read,
              written |-> << >>, files |-> files]
        ELSE [kind |-> "returned", msg |-> "", read |-> tables.read,
              written |-> << combined >>, files |-> files \cup {combined}]

\* a row of the summary table: the run, its likelihood and its parameter
\* columns
ZeroRow(run) == [run |-> run, lhood |-> "zero", params |-> "zeros"]

\* a bug: the likelihood of a skipped run is left at its initial zero
SkippedRowZero(row) == row

\* lines 338-340 and 345-347: results['lhood'][run-1] = np.nan; continue
SkippedRow(row) == [row EXCEPT !.lhood = "nan"]

\* lines 353-369: the means and the likelihood of the run are stored
FilledRow(row) == [row EXCEPT !.lhood = "lhood", !.params = "means"]

RECURSIVE RunLoop(_, _, _, _, _, _)
\* lines 337-369: the loop over the runs; load_models and lhoodClass are
\* outside the try, so what they raise leaves save_summary
RunLoop(run, n_runs, exclude, failing, broken, rows) ==
    IF run > n_runs THEN [kind |-> "returned", msg |-> "", rows |-> rows]
    ELSE IF run \in exclude
         THEN RunLoop(run + 1, n_runs, exclude, failing, broken,
                      [rows EXCEPT ![run] = SkippedRow(rows[run])])
    ELSE IF run \in failing
         THEN RunLoop(run + 1, n_runs, exclude, failing, broken,
                      [rows EXCEPT ![run] = SkippedRow(rows[run])])
    ELSE IF run = broken
         THEN [kind |-> "raised", msg |-> "IndexError", rows |-> << >>]
    ELSE RunLoop(run + 1, n_runs, exclude, failing, broken,
                 [rows EXCEPT ![run] = FilledRow(rows[run])])

NoSummary ==
    [op |-> "none", kind |-> "", msg |-> "", source |-> "", batch |-> 0,
     last_batch |-> 0, con_ver |-> 0, con_vers |-> << >>, n_runs |-> 0,
     exclude |-> {}, failing |-> {}, broken |-> 0, combine |-> FALSE,
     rows |-> << >>, written |-> << >>, read |-> << >>]

\* save_summary lines 303-403 with one con_ver: the table of the group is
\* written, then (with combine) the tables are combined up to the last
\* batch of the group
SummaryOutcome(batch, source, con_ver, n_runs, exclude, failing, broken, combine, files) ==
    LET loop  == RunLoop(1, n_runs, exclude, failing, broken,
                         [r \in 1..n_runs |-> ZeroRow(r)])
        group == ExpandBatches(batch, source)
        file  == TableFile(source, group, con_ver)
        comb  == CombineOutcome(group[Len(group)], con_ver, source, exclude,
                                files \cup {file})
    IN  IF loop.kind = "raised"
        THEN [kind |-> "raised", msg |-> loop.msg, rows |-> << >>,
              written |-> << >>, read |-> << >>, files |-> files]
        ELSE IF ~combine
        THEN [kind |-> "returned", msg |-> "", rows |-> loop.rows,
              written |-> << file >>, read |-> << >>, files |-> files \cup {file}]
        ELSE [kind |-> comb.kind, msg |-> comb.msg, rows |-> loop.rows,
              written |-> << file >> \o comb.written, read |-> comb.read,
              files |-> comb.files]

\* save_summary with one con_ver
SaveSummary(batch, source, con_ver, n_runs, exclude, failing, broken, combine) ==
    LET out == SummaryOutcome(batch, source, con_ver, n_runs, exclude,
                              failing, broken, combine, disk)
    IN  /\ disk' = out.files
        /\ sumlast' = [NoSummary EXCEPT !.op = "save_summary", !.kind = out.kind,
                          !.msg = out.msg, !.source = source, !.batch = batch,
                          !.con_ver = con_ver, !.n_runs = n_runs,
                          !.exclude = exclude, !.failing = failing,
                          !.broken = broken, !.combine = combine,
                          !.rows = out.rows, !.written = out.written,
                          !.read = out.read]

\* lines 294-301: with a list or tuple, save_summaries is called for every
\* con_ver with the keywords batches and con_ver; save_summaries requires
\* batch_first and batch_last, so the first call raises TypeError
ListOutcome(con_vers) ==
    IF Len(con_vers) = 0
    THEN [kind |-> "returned", msg |-> "", written |-> << >>]
    ELSE [kind |-> "raised", msg |-> "TypeError", written |-> << >>]

\* save_summary with a list of con_vers
SaveSummaryList(batch, source, con_vers) ==
    LET out == ListOutcome(con_vers) IN
    /\ sumlast' = [NoSummary EXCEPT !.op = "save_summary_list", !.kind = out.kind,
                      !.msg = out.msg, !.source = source, !.batch = batch,
                      !.con_vers = con_vers, !.written = out.written]
    /\ UNCHANGED disk

RECURSIVE SummariesOutcome(_, _, _, _, _, _)
\* lines 272-277 called with con_ver and combine as keywords: save_summary
\* for every batch of range(batch_first, batch_last + 1, 3), every run of
\* every batch having a chain
SummariesOutcome(todo, source, con_ver, combine, files, written) ==
    IF Len(todo) = 0
    THEN [kind |-> "returned", msg |-> "", written |-> written, files |-> files]
    ELSE LET one == SummaryOutcome(Head(todo), source, con_ver, MaxNRuns,
                                   {}, {}, 0, combine, files)
         IN  IF one.kind = "raised"
             THEN [kind |-> "raised", msg |-> one.msg,
                   written |-> written \o one.written, files |-> one.files]
             ELSE SummariesOutcome(Tail(todo), source, con_ver, combine,
                                   one.files, written \o one.written)

SaveSummaries(batch_first, batch_last, source, con_ver, combine) ==
    LET out == SummariesOutcome(Arange(batch_first, batch_last + 1, 3), source,
                                con_ver, combine, disk, << >>)
    IN  /\ disk' = out.files
        /\ sumlast' = [NoSummary EXCEPT !.op = "save_summaries", !.kind = out.kind,
                          !.msg = out.msg, !.source = source,
                          !.batch = batch_first, !.last_batch = batch_last,
                          !.con_ver = con_ver, !.combine = combine,
                          !.written = out.written]

\* lines 262-266: the first pass of the loop evaluates the argument
\* source=source **kwargs, a string raised to the power of a dict, which is
\* a TypeError; the batch list is never empty
AllSummariesOutcome(last_batch) ==
    LET batches == << 4, 7, 9 >> \o Arange(12, last_batch, 3) IN
    IF Len(batches) > 0
    THEN [kind |-> "raised", msg |-> "TypeError", written |-> << >>]
    ELSE [kind |-> "returned", msg |-> "", written |-> << >>]

\* lines 258-269
SaveAllSummaries(last_batch, con_ver, source, combine) ==
    LET out == AllSummariesOutcome(last_batch) IN
    /\ sumlast' = [NoSummary EXCEPT !.op = "save_all_summaries", !.kind = out.kind,
                      !.msg = out.msg, !.source = source,
                      !.last_batch = last_batch, !.con_ver = con_ver,
                      !.combine = combine, !.written = out.written]
    /\ UNCHANGED disk

\* combine_mcmc called on its own
CombineMcmc(last_batch, con_ver, source, exclude) ==
    LET out == CombineOutcome(last_batch, con_ver, source, exclude, disk) IN
    /\ disk' = out.files
    /\ sumlast' = [NoSummary EXCEPT !.op = "combine_mcmc", !.kind = out.kind,
                      !.msg = out.msg, !.source = source,
                      !.last_batch = last_batch, !.con_ver = con_ver,
                      !.exclude = exclude, !.read = out.read,
                      !.written = out.written]

----------------------------------------------------------------------------
(* Plotting: plot_lightcurves *)

\* manipulation.construct_t_params(n): the names 't1' .. 'tn'
ConstructTParams(n) == [k \in 1..n |-> "t" \o ToString(k)]

\* a bug: every epoch is given the first time shift
ShiftNameFirst(k) == "t1"

\* line 449: t = 't' + str(i+1), for the epoch k = i + 1
ShiftName(k) == "t" \o ToString(k)

\* lines 440-445: params[p] = mcmc_table[p][run_idx] for the base names and
\* the time names
ReadParams(run, n) ==
    LET names == {"d", "i", "1+z"} \cup {ConstructTParams(n)[k] : k \in 1..n}
    IN  [p \in names |-> [run |-> run, col |-> p]]

\* lines 448-452: obs[i].compare(models[i], [d, i, 1+z, t(i+1)], ...)
Compare(obs, mods, params, k) ==
    [obs |-> obs[k], model |-> mods[k],
     params |-> << params["d"], params["i"], params["1+z"], params[ShiftName(k)] >>]

\* lines 420-452: the models are loaded (load_models raises IndexError for a
\* run the parameter table does not hold), the mcmc table of the group is
\* read (pd.read_table raises when it is not on disk, line 435), the row of
\* the run is looked up (IndexError at line 437 when the table has none),
\* then the epochs are compared, models[i] raising IndexError when there
\* are fewer batches than observed bursts
PlotOutcome(run, batches, source, con_ver, files) ==
    LET obs    == LoadObs(source)
        loaded == LoadOutcome(ExpandRuns(<<run>>, batches), batches)
        mods   == loaded.models
        n      == Len(obs)
        params == ReadParams(run, n)
        done   == IF Len(mods) < n THEN Len(mods) ELSE n
    IN  IF loaded.kind = "raised"
        THEN [kind |-> "raised", msg |-> loaded.msg, compares |-> << >>]
        ELSE IF TableFile(source, batches, con_ver) \notin files
        THEN [kind |-> "raised", msg |-> "FileNotFoundError", compares |-> << >>]
        ELSE IF run \notin TableRuns
        THEN [kind |-> "raised", msg |-> "IndexError", compares |-> << >>]
        ELSE [kind |-> IF Len(mods) < n THEN "raised" ELSE "returned",
              msg |-> IF Len(mods) < n THEN "IndexError" ELSE "",
              compares |-> [k \in 1..done |-> Compare(obs, mods, params, k)]]

\* pytools/ctools.py lines 407-454
PlotLightcurves(run, batches, source, con_ver) ==
    LET out == PlotOutcome(run, batches, source, con_ver, disk) IN
    /\ tools = "pytools/ctools.py"
    /\ rlast' = [NoRun EXCEPT !.op = "plot_lightcurves", !.kind = out.kind,
                    !.msg = out.msg, !.source = source, !.run = run,
                    !.batches = batches, !.compares = out.compares]
    /\ UNCHANGED chain

----------------------------------------------------------------------------
(* Specifications *)

InitCommon ==
    /\ cache = NotCached
    /\ loads = 0
    /\ last = NoCall
    /\ pinned = NotPinned
    /\ pc = [t \in Threads |-> "idle"]
    /\ tincl = [t \in Threads |-> Quantity(0, "deg")]
    /\ tlocal = [t \in Threads |-> NotCached]
    /\ tres = [t \in Threads |-> [kind |-> "", res |-> NoPair]]
    /\ paramsObj = DefaultGuess
    /\ models = << >>
    /\ pos = << >>
    /\ slast = NoSetup
    /\ chain = << >>
    /\ rlast = NoRun
    /\ sumlast = NoSummary

\* the process starts with either reference table on disk
Init ==
    /\ tableFile \in Tables
    /\ tools = "pytools/ctools.py"
    /\ InitCommon
    /\ disk = {}

\* a single caller: calls follow one another
Next ==
    \E inclination \in Inclinations, model \in ModelNames, test \in BOOLEAN :
        \E pin \in IF model = "he16" /\ ~pinned.set THEN BOOLEAN ELSE {FALSE} :
            /\ Anisotropy(inclination, model, test, pin)
            /\ UNCHANGED threadVars
            /\ UNCHANGED setupVars
            /\ UNCHANGED toolVars

Spec == Init /\ [][Next]_vars

\* several sampler threads in one process
NextThreads ==
    \E t \in Threads :
        \/ \E inclination \in ThreadInclinations : TCall(t, inclination)
        \/ TCheck(t)
        \/ TRead(t)
        \/ TStore(t)
        \/ TEval(t)

SpecThreads == Init /\ [][NextThreads]_vars

\* a setup script imports one of the two tools modules
InitSetup ==
    /\ tableFile = TableA
    /\ tools \in ToolsFiles
    /\ InitCommon
    /\ disk = {}

\* a setup script: the setup functions in any order
LoadStep ==
    /\ \E runs \in RunLists, batches \in BatchLists :
        \/ LoadModelsPy(runs, batches)
        \/ LoadModelsOld(runs, batches)
    /\ UNCHANGED anisoVars
    /\ UNCHANGED threadVars
    /\ UNCHANGED toolVars

PositionsStep ==
    /\ \E reuse \in BOOLEAN :
        \/ \E n_epochs \in 1..MaxEpochs : SetupPositionsPy(n_epochs, reuse)
        \/ \E source \in Sources : SetupPositionsOld(source, reuse)
    /\ UNCHANGED anisoVars
    /\ UNCHANGED threadVars
    /\ UNCHANGED toolVars

SamplerStep ==
    /\ \E source \in Sources :
        \/ SetupSamplerPy(source)
        \/ \E n_epochs \in 1..MaxEpochs, reuse \in BOOLEAN :
              SetupSamplerPyNoPos(source, n_epochs, reuse)
        \/ \E given_pos \in BOOLEAN : SetupSamplerOld(source, given_pos)
    /\ UNCHANGED anisoVars
    /\ UNCHANGED threadVars
    /\ UNCHANGED toolVars

NextSetup == LoadStep \/ PositionsStep \/ SamplerStep

SpecSetup == InitSetup /\ [][NextSetup]_vars

\* the mcmc tables a plotting session may find: none, or one for every
\* group of batches it asks for
PlotTables ==
    {TableFile(source, batches, con_ver) :
        source \in Sources, batches \in BatchLists, con_ver \in ConVers}

\* a fitting script: either tools module, with or without earlier tables
InitRun ==
    /\ tableFile = TableA
    /\ tools \in ToolsFiles
    /\ InitCommon
    /\ disk \in {{}, PlotTables}

RunStep ==
    /\ \E p0 \in StartPositions, nsteps \in StepCounts, restart \in BOOLEAN :
        \/ \E fails \in BOOLEAN : RunSamplerPy(p0, nsteps, restart, fails)
        \/ RunSamplerOld(p0, nsteps, restart)
    /\ UNCHANGED anisoVars
    /\ UNCHANGED threadVars
    /\ UNCHANGED setupVars
    /\ UNCHANGED sumVars

PlotStep ==
    /\ \E run \in {1, 5}, batches \in BatchLists, source \in Sources,
          con_ver \in ConVers :
        PlotLightcurves(run, batches, source, con_ver)
    /\ UNCHANGED anisoVars
    /\ UNCHANGED threadVars
    /\ UNCHANGED setupVars
    /\ UNCHANGED sumVars

NextRun == RunStep \/ PlotStep

SpecRun == InitRun /\ [][NextRun]_vars

\* the tables of earlier sessions: none, or one for every group up to 15
EarlierTables ==
    {TableFile("gs1826", ExpandBatches(b, "gs1826"), 1) : b \in {4, 7, 9, 12, 15}}
        \cup {TableFile("4u1820", ExpandBatches(b, "4u1820"), 1) : b \in {2, 4, 6}}

InitSummary ==
    /\ tableFile = TableA
    /\ tools = "pytools/ctools.py"
    /\ InitCommon
    /\ disk \in {{}, EarlierTables}

SummaryStep ==
    /\ \E group \in SummaryGroups, con_ver \in ConVers, combine \in BOOLEAN :
        \E exclude \in RunSets(MaxNRuns), failing \in RunSets(MaxNRuns),
           broken \in {0, MaxNRuns} :
            SaveSummary(group.batch, group.source, con_ver, MaxNRuns, exclude,
                        failing, broken, combine)
    /\ UNCHANGED <<anisoVars, threadVars, setupVars, runVars>>

SummaryListStep ==
    /\ \E group \in SummaryGroups, con_vers \in ConVerLists :
        SaveSummaryList(group.batch, group.source, con_vers)
    /\ UNCHANGED <<anisoVars, threadVars, setupVars, runVars>>

SummariesStep ==
    /\ \E batch_last \in {12, 15}, con_ver \in ConVers, combine \in BOOLEAN :
        SaveSummaries(12, batch_last, "gs1826", con_ver, combine)
    /\ UNCHANGED <<anisoVars, threadVars, setupVars, runVars>>

AllSummariesStep ==
    /\ \E last_batch \in LastBatches, con_ver \in ConVers, source \in Sources,
          combine \in BOOLEAN :
        SaveAllSummaries(last_batch, con_ver, source, combine)
    /\ UNCHANGED <<anisoVars, threadVars, setupVars, runVars>>

CombineStep ==
    /\ \E last_batch \in LastBatches, con_ver \in ConVers, source \in Sources,
          exclude \in SUBSET {4, 12} :
        CombineMcmc(last_batch, con_ver, source, exclude)
    /\ UNCHANGED <<anisoVars, threadVars, setupVars, runVars>>

NextSummary ==
    SummaryStep \/ SummaryListStep \/ SummariesStep \/ AllSummariesStep
        \/ CombineStep

SpecSummary == InitSummary /\ [][NextSummary]_vars

----------------------------------------------------------------------------
(* Properties *)

\* the angle of a call in millidegrees, after the unit handling of lines 55-59
AngleOf(l) ==
    IF l.incl.unit = "rad" THEN l.incl.value * 57296 ELSE l.incl.value * 1000

\* the same angle in milliradians
AngleRad(l) ==
    IF l.incl.unit = "rad" THEN l.incl.value * 1000
    ELSE (l.incl.value * 17453 + 500) \div 1000

IsCall(l, model) == l.op = "anisotropy" /\ l.model = model

\* whether a call goes through the tabulated model (directly, or by the
\* calls of the test branch)
UsesTable(l) == l.model = "he16" \/ l.test

\* x * y is within 0.2 per cent of the float t (the product is taken on the
\* mantissas, without the division the model under test uses)
ProductIs(x, y, t) ==
    LET pr == Norm(x.m * y.m, x.e + y.e) IN
    \/ pr.e = t.e /\ pr.m - t.m <= 2 /\ t.m - pr.m <= 2
    \/ pr.e = t.e - 1 /\ 10 * t.m - pr.m <= 20 /\ pr.m <= 10 * t.m
    \/ pr.e = t.e + 1 /\ 10 * pr.m - t.m <= 20 /\ t.m <= 10 * pr.m

\* C1: a call with a model name other than 'fuji88' and 'he16' fails with an
\* error naming the rejected model; it never returns the pair (None, None).
C1_UnknownModelFails ==
    (last.op = "anisotropy" /\ last.model \notin SupportedModels)
        => (last.kind = "raised" /\ last.msg = last.model)

\* C2: over any series of calls the table file is read and the interpolator
\* built exactly once, by the first call that uses the tabulated model; a
\* call that finds the cache filled neither reads the file again nor
\* replaces or clears the cache.
C2_LoadedOnce ==
    /\ loads <= 1
    /\ cache.set <=> loads = 1
    /\ cache.set => cache.tab = tableFile
    /\ last.op = "anisotropy" =>
        /\ last.before.set => (cache = last.before /\ last.reads = 0)
        /\ UsesTable(last) => cache.set
        /\ (~last.before.set /\ UsesTable(last)) => last.reads = 1
        /\ (~last.before.set /\ ~UsesTable(last)) => (~cache.set /\ last.reads = 0)

C2_Witness ==
    /\ IsCall(last, "he16")
    /\ last.kind = "value"
    /\ last.before.set
    /\ loads = 1

\* C3: with several threads in the tabulated branch while the cache is
\* empty, the table file is read at most once.
C3_AtMostOneLoad == loads <= 1

\* C4: a tabulated call with the inclination of an earlier successful
\* tabulated call returns the same pair as that call, whatever calls were
\* made in between, and without the test branch it does return.
C4_Idempotent ==
    (IsCall(last, "he16") /\ pinned.set /\ last.incl = pinned.incl) =>
        /\ last.kind = "value" => last.res = pinned.res
        /\ ~last.test => last.kind = "value"

C4_Witness ==
    /\ IsCall(last, "he16")
    /\ pinned.set
    /\ last.incl = pinned.incl
    /\ last.kind = "value"
    /\ last.before.set
    /\ last.incl.value = 45

\* C5: for both supported models a call with the bare number x has the
\* outcome of the call with x tagged as degrees.
C5_BareIsDegrees ==
    (last.op = "anisotropy" /\ last.incl.unit = "none"
        /\ last.model \in SupportedModels) =>
        LET asDeg == AnisotropyCall(last.before, tableFile,
                        Quantity(last.incl.value, "deg"), last.model, last.test)
        IN  last.kind = asDeg.kind /\ last.res = asDeg.res

\* a bare 45 whose outcome differs from that of 45 rad
C5_Witness ==
    /\ last.op = "anisotropy"
    /\ last.incl = Quantity(45, "none")
    /\ last.model \in SupportedModels
    /\ last.kind = "value"
    /\ LET asRad == AnisotropyCall(last.before, tableFile,
                        Quantity(45, "rad"), last.model, last.test)
       IN  asRad.kind # last.kind \/ asRad.res # last.res

\* C6: for an inclination in [0, 90) degrees the analytic model returns a
\* finite, strictly positive pair with xi_b * (0.5 + |cos|) = 1 and
\* xi_p * |cos| = 0.5.
C6_AnalyticValues ==
    (IsCall(last, "fuji88") /\ 0 <= AngleOf(last) /\ AngleOf(last) < 90000) =>
        LET a == FAbs(CosRad(AngleRad(last))) IN
        /\ ~last.test => last.kind = "value"
        /\ last.kind = "value" =>
            /\ IsFinite(last.res.xi_b) /\ last.res.xi_b.m > 0
            /\ IsFinite(last.res.xi_p) /\ last.res.xi_p.m > 0
            /\ ProductIs(last.res.xi_b, FAdd(Half, a), One)
            /\ ProductIs(last.res.xi_p, a, Half)

C6_Witness ==
    /\ IsCall(last, "fuji88")
    /\ last.incl = Quantity(89, "none")
    /\ last.kind = "value"

\* the pair a direct look-up of a table row gives
RowPair(row) == Reciprocals(AsDoubles(row))

\* C7: at an inclination that is a node of the reference table the
\* tabulated model returns exactly (1/(inv_xi_d + inv_xi_r), 1/inv_xi_p) of
\* that row: the same doubles a direct look-up of the row gives.
C7_ExactAtNodes ==
    \A k \in 1..Len(tableFile) :
        (IsCall(last, "he16") /\ AngleOf(last) = tableFile[k].x) =>
            /\ ~last.test => last.kind = "value"
            /\ last.kind = "value" => last.res = RowPair(tableFile[k])

\* C8: at an inclination of exactly 90 degrees the analytic model fails or
\* returns +infinity for xi_persistent, never a finite number.
C8_SingularNotFinite ==
    (IsCall(last, "fuji88") /\ AngleOf(last) = 90000) =>
        (last.kind = "raised" \/ (last.kind = "value" /\ last.res.xi_p = Inf))

\* C9: setup fails when the counts disagree: setup_sampler returns a sampler
\* only if there is one model per observed burst and the walker dimension is
\* 3 + the number of observed bursts, and load_models returns a tuple only
\* with one model per batch.
C9_MismatchFailsFast ==
    /\ (slast.op = "setup_sampler" /\ slast.kind = "returned") =>
        /\ slast.sampler.nmodels = slast.sampler.nobs
        /\ slast.sampler.ndim = NBase + slast.sampler.nobs
    /\ (slast.op = "load_models" /\ slast.kind = "returned") =>
        Len(models) = slast.nbatches

\* C10: every walker position returned by setup_positions has 3 + N
\* entries, N the number of epochs of that call.
C10_DimensionFixed ==
    slast.op = "setup_positions" =>
        \A w \in 1..Len(pos) : Len(pos[w]) = NBase + slast.n_epochs

\* C11: load_models returns one model per batch, in batch order: model k is
\* built from runs[k] (from the single run, when one run is given) and from
\* batches[k], for every batch k.
C11_OneModelPerBatch ==
    (slast.op = "load_models" /\ slast.kind = "returned") =>
        /\ Len(models) = Len(slast.batches)
        /\ \A k \in 1..Len(models) :
            /\ models[k].batch = slast.batches[k]
            /\ models[k].run = IF Len(slast.runs) = 1 THEN slast.runs[1]
                               ELSE slast.runs[k]

\* C19: a tabulated call with an inclination outside the angles of the
\* reference table raises an error and returns no value; it leaves a filled
\* cache as it was, so that every in-range call made next returns a value,
\* and the value an earlier call returned for the same inclination.
C19_OutOfRangeFails ==
    (IsCall(last, "he16") /\ ~InRange(tableFile, AngleOf(last))) =>
        /\ last.kind = "raised"
        /\ last.msg = "ValueError"
        /\ last.before.set => cache = last.before
        /\ \A q \in Inclinations :
            InRange(tableFile, AngleOf([incl |-> q])) =>
                AnisotropyCall(cache, tableFile, q, "he16", FALSE).kind = "value"
        /\ pinned.set =>
            AnisotropyCall(cache, tableFile, pinned.incl, "he16", FALSE).res
                = pinned.res

\* a failing call after the cache was filled and an in-range call succeeded
C19_Witness ==
    /\ IsCall(last, "he16")
    /\ ~last.test
    /\ ~InRange(tableFile, AngleOf(last))
    /\ last.kind = "raised"
    /\ last.before.set
    /\ pinned.set

\* C13: plot_lightcurves compares observed burst k with model k (the model
\* of batch k) and with the parameters d, i, 1+z and the time shift of
\* epoch k, for every epoch k when it completes.
C13_EpochsPaired ==
    rlast.op = "plot_lightcurves" =>
        /\ \A k \in 1..Len(rlast.compares) :
            /\ rlast.compares[k].obs = ObsFiles(rlast.source)[k]
            /\ rlast.compares[k].model
                 = [run |-> rlast.run, batch |-> rlast.batches[k]]
            /\ rlast.compares[k].params
                 = << [run |-> rlast.run, col |-> "d"],
                      [run |-> rlast.run, col |-> "i"],
                      [run |-> rlast.run, col |-> "1+z"],
                      [run |-> rlast.run, col |-> << "t1", "t2", "t3" >>[k]] >>
        /\ rlast.kind = "returned" =>
            Len(rlast.compares) = Len(ObsFiles(rlast.source))

\* the three epochs of gs1826 plotted
C13_Witness ==
    /\ rlast.op = "plot_lightcurves"
    /\ rlast.kind = "returned"
    /\ rlast.source = "gs1826"
    /\ Len(rlast.compares) = 3

\* C14: run_sampler empties the stored chain before running exactly when
\* restart is set (otherwise the stored chain is kept and extended), and it
\* returns what run_mcmc returned, also when the autocorrelation estimate
\* raised.
C14_ResetIffRestart ==
    rlast.op = "run_sampler" =>
        LET new == [k \in 1..rlast.nsteps |-> rlast.p0 + k] IN
        /\ rlast.restart => chain = new
        /\ ~rlast.restart => chain = rlast.before \o new
        /\ rlast.kind = "returned"
        /\ rlast.ret.pos_new = rlast.p0 + rlast.nsteps
        /\ rlast.ret.lnprob = 0 - (rlast.p0 + rlast.nsteps)
        /\ rlast.ret.rstate = Len(chain)

\* a stored chain extended by a call whose autocorrelation estimate raised
C14_Witness ==
    /\ rlast.op = "run_sampler"
    /\ ~rlast.restart
    /\ Len(rlast.before) > 0
    /\ rlast.autocorr = "absorbed"
    /\ rlast.kind = "returned"

\* the runs save_summary skips: those in exclude and those without a
\* readable chain
Skipped(l) == l.exclude \cup l.failing

\* C15: save_summary with one con_ver writes a table with one row per run
\* 1..n_runs; the row of a run in exclude, or of a run whose get_summary
\* raised, has lhood NaN and parameter columns at zero, and such runs never
\* stop the loop.
C15_SkippedRunsKeepRow ==
    sumlast.op = "save_summary" =>
        /\ sumlast.broken \notin ((1..sumlast.n_runs) \ Skipped(sumlast)) =>
            Len(sumlast.rows) = sumlast.n_runs
        /\ Len(sumlast.rows) > 0 =>
            /\ Len(sumlast.rows) = sumlast.n_runs
            /\ TableFile(sumlast.source,
                         ExpandBatches(sumlast.batch, sumlast.source),
                         sumlast.con_ver) \in disk
            /\ \A r \in 1..sumlast.n_runs :
                /\ sumlast.rows[r].run = r
                /\ r \in Skipped(sumlast) =>
                    /\ sumlast.rows[r].lhood = "nan"
                    /\ sumlast.rows[r].params = "zeros"
                /\ r \notin Skipped(sumlast) =>
                    /\ sumlast.rows[r].lhood = "lhood"
                    /\ sumlast.rows[r].params = "means"

\* run 1 excluded, run 2 without a readable chain, and the table written
C15_Witness ==
    /\ sumlast.op = "save_summary"
    /\ sumlast.exclude = {1}
    /\ sumlast.failing = {2}
    /\ sumlast.kind = "returned"
    /\ Len(sumlast.rows) = 2

\* C16: save_summary with a list or tuple of con_vers returns after it has
\* written the table of the given batches once per con_ver, in list order.
C16_OncePerConVer ==
    sumlast.op = "save_summary_list" =>
        /\ sumlast.kind = "returned"
        /\ sumlast.written =
            [k \in 1..Len(sumlast.con_vers) |->
                TableFile(sumlast.source,
                          ExpandBatches(sumlast.batch, sumlast.source),
                          sumlast.con_vers[k])]

\* the groups of a source: 4, 7, 9, 12, 15, ... for gs1826 and 2, 4, 6, ...
\* for 4u1820
InSequence(source, b) ==
    IF source = "gs1826"
    THEN b \in {4, 7, 9} \/ (b >= 12 /\ b % 3 = 0)
    ELSE b >= 2 /\ b % 2 = 0

\* C17: combine_mcmc reads no table of a batch greater than last_batch, and
\* when it completes it has read exactly the tables of the source's groups
\* up to and including last_batch that are not in exclude.
C17_UpToLastBatch ==
    sumlast.op = "combine_mcmc" =>
        /\ \A k \in 1..Len(sumlast.read) : sumlast.read[k] <= sumlast.last_batch
        /\ sumlast.kind = "returned" =>
            {sumlast.read[k] : k \in 1..Len(sumlast.read)}
                = {b \in 1..sumlast.last_batch :
                      InSequence(sumlast.source, b) /\ b \notin sumlast.exclude}

\* C18: save_all_summaries completes, having written the table of every
\* batch of 4, 7, 9, 12, 15, ... below last_batch and then that of
\* last_batch.
C18_AllSummariesSaved ==
    sumlast.op = "save_all_summaries" =>
        /\ sumlast.kind = "returned"
        /\ sumlast.written =
            LET batches == << 4, 7, 9 >> \o Arange(12, sumlast.last_batch, 3)
                              \o << sumlast.last_batch >>
            IN  [k \in 1..Len(batches) |->
                    TableFile(sumlast.source,
                              ExpandBatches(batches[k], sumlast.source),
                              sumlast.con_ver)]

====
